---- MODULE Spec2Model ----
(***************************************************************************)
(* Score persistence and leaderboard adapter of the tic-tac-toe frontend:  *)
(* SupabaseService with column negotiation ('result' / 'score'), its       *)
(* string-based error classification and its one-time schema help, plus    *)
(* the non-negotiating service variant (saveScore / getTopScores).         *)
(*                                                                         *)
(* A call of an async method is a slot of `calls`; every await is a point  *)
(* where the slot waits for the store's response, which the environment    *)
(* picks from Responses.  Error messages are real strings and the          *)
(* classification predicates match substrings of them, as the code does.   *)
(*                                                                         *)
(* Spec lets the store answer as it likes; SpecBoard runs the adapter over *)
(* a store that keeps its table; SpecAggregate applies                     *)
(* aggregateLeaderboard to row lists of every kind; SpecOverlap lets       *)
(* invocations overlap; SpecGame runs GameComponent (board, AI timer,      *)
(* endGame and its save) with ToastService over the adapter; SpecToast     *)
(* runs ToastService alone under any shows, clears and timer firings.      *)
(***************************************************************************)
EXTENDS Integers, Sequences, FiniteSets, TLC

VARIABLES
  client,             \* "client" | "null": SupabaseService.client (readonly)
  scoreColumn,        \* "null" | "result" | "score": SupabaseService.scoreColumn
  warnedAboutSchema,  \* SupabaseService.warnedAboutSchema
  svcWarnedAboutSchema, \* warnedAboutSchema of the non-negotiating service variant
  schema,             \* the store: "absent" | "result" | "score" (the column the table has)
  honest,             \* every response so far was one the store's schema produces
  calls,              \* the invocations in flight, by slot
  table,              \* the store: the rows of `scores`, oldest first
  agg,                \* an application of aggregateLeaderboard: its arguments and its value
  gameUsername,       \* GameComponent.username (bound to the name input)
  aiEnabled,          \* GameComponent.aiEnabled (bound to the AI switch)
  gameBoard,          \* GameComponent.board: cells 0..8, each "X" | "O" | "null"
  currentPlayer,      \* GameComponent.currentPlayer: "X" | "O"
  gameOver,           \* GameComponent.gameOver
  usernameRequiredToSave, \* GameComponent.usernameRequiredToSave
  toast,              \* ToastService.toast: NoToast or [kind, text]
  timers              \* the setTimeout callbacks that are due, oldest first

gameVars ==
  <<gameUsername, aiEnabled, gameBoard, currentPlayer, gameOver, usernameRequiredToSave, toast,
    timers>>

vars ==
  <<client, scoreColumn, warnedAboutSchema, svcWarnedAboutSchema, schema, honest, calls,
    table, agg, gameVars>>

----------------------------------------------------------------------------
(* Bounds and input sets *)

MaxCalls == 2

CallIds == 1..MaxCalls

Usernames == {"ann", "bob"}

\* score values in half points: 2 = win (1), 1 = draw (0.5), 0 = loss (0)
Scores == {0, 1, 2}

\* getTopScores(limit = 10)
DefaultLimit == 10

Limits == {3, DefaultLimit}

Columns == {"result", "score"}

Schemas == {"absent", "result", "score"}

\* backend error messages, as PostgREST / Postgres / the transport word them
Messages ==
  { "Failed to fetch",
    "",
    "permission denied for relation scores",
    "relation \"public.scores\" does not exist",
    "Could not find the table 'public.scores' in the schema cache",
    "Unknown table",
    "Could not find the 'result' column of 'scores' in the schema cache",
    "column scores.result does not exist",
    "column scores.score does not exist",
    "Column 'result' not found",
    "column \"result\" of relation \"scores\" does not exist" }

\* a response: {error: null, data} or {error: {message}, data: null}
NoError == [failed |-> FALSE, message |-> "", data |-> <<>>]

Responses == {NoError} \cup {[failed |-> TRUE, message |-> m, data |-> <<>>] : m \in Messages}

----------------------------------------------------------------------------
(* Strings *)

LowerOf(ch) ==
  CASE ch = "A" -> "a" [] ch = "B" -> "b" [] ch = "C" -> "c" [] ch = "D" -> "d"
    [] ch = "E" -> "e" [] ch = "F" -> "f" [] ch = "G" -> "g" [] ch = "H" -> "h"
    [] ch = "I" -> "i" [] ch = "J" -> "j" [] ch = "K" -> "k" [] ch = "L" -> "l"
    [] ch = "M" -> "m" [] ch = "N" -> "n" [] ch = "O" -> "o" [] ch = "P" -> "p"
    [] ch = "Q" -> "q" [] ch = "R" -> "r" [] ch = "S" -> "s" [] ch = "T" -> "t"
    [] ch = "U" -> "u" [] ch = "V" -> "v" [] ch = "W" -> "w" [] ch = "X" -> "x"
    [] ch = "Y" -> "y" [] ch = "Z" -> "z" [] OTHER -> ch

\* String.prototype.toLowerCase, letter by letter
RECURSIVE toLowerCase(_)
toLowerCase(s) ==
  IF Len(s) <= 1 THEN LowerOf(s)
  ELSE LET half == Len(s) \div 2
       IN  toLowerCase(SubSeq(s, 1, half)) \o toLowerCase(SubSeq(s, half + 1, Len(s)))

\* String.prototype.includes
includes(s, p) ==
  \E i \in 1..(Len(s) - Len(p) + 1) : SubSeq(s, i, i + Len(p) - 1) = p

----------------------------------------------------------------------------
(* Error classification *)

isMissingTableError(error) ==
  LET msg == toLowerCase(error.message)
  IN  \/ (includes(msg, "relation") /\ includes(msg, "does not exist"))
      \/ includes(msg, "could not find the table")
      \/ includes(msg, "unknown table")
      \/ includes(msg, "schema cache")

\* faulty variant: any missing column counts, whatever its name
isMissingColumnErrorAnyName(error, column) ==
  LET msg == toLowerCase(error.message)
  IN  /\ includes(msg, "column")
      /\ (includes(msg, "does not exist") \/ includes(msg, "not found"))

isMissingColumnError(error, column) ==
  LET msg == toLowerCase(error.message)
      c   == toLowerCase(column)
  IN  /\ includes(msg, "column")
      /\ includes(msg, c)
      /\ (includes(msg, "does not exist") \/ includes(msg, "not found"))

----------------------------------------------------------------------------
(* Messages the adapter produces *)

TerseHelp ==
  "Supabase table \"scores\" is missing or not accessible. Please create it in Supabase SQL editor."

VerboseHelp ==
  "Supabase table \"scores\" is missing or not accessible.\nCreate it in Supabase SQL editor with:\n\ncreate extension if not exists \"uuid-ossp\";\n\ncreate table if not exists public.scores (\n  id uuid primary key default uuid_generate_v4(),\n  username text not null,\n  result numeric not null,\n  created_at timestamptz not null default now()\n);\n\n-- Optional: allow anon inserts/selects for MVP (adjust for production)\nalter table public.scores enable row level security;\n\ncreate policy \"anon_read_scores\"\non public.scores for select\nto anon\nusing (true);\n\ncreate policy \"anon_insert_scores\"\non public.scores for insert\nto anon\nwith check (true);"

\* faulty variant: the help is handed out without marking it as shown
schemaHelpMessageUnmarked(warned) ==
  IF warned
    THEN [message |-> TerseHelp, warned |-> warned]
    ELSE [message |-> VerboseHelp, warned |-> warned]

\* faulty variant: the verbose help every time
schemaHelpMessageVerboseAlways(warned) == [message |-> VerboseHelp, warned |-> TRUE]

\* schemaHelpMessage(): the text returned and the value warnedAboutSchema has afterwards
schemaHelpMessage(warned) ==
  IF warned
    THEN [message |-> TerseHelp, warned |-> warned]
    ELSE [message |-> VerboseHelp, warned |-> TRUE]

SaveUnavailable == "Score saving is unavailable in this build."

SaveFailedPrefix == "Failed to save score: "

LoadFailedPrefix == "Failed to load leaderboard: "

----------------------------------------------------------------------------
(* Requests and results *)

NoRow == [username |-> ""]

\* faulty variant: the row always carries the score under 'result'
buildInsertPayloadResult(column, username, score) ==
  [username |-> username, result |-> score]

buildInsertPayload(column, username, score) ==
  IF column = "result"
    THEN [username |-> username, result |-> score]
    ELSE [username |-> username, score |-> score]

Pending == [failed |-> TRUE, message |-> "(pending)", data |-> <<>>]

InsertRequest(column, username, score) ==
  [kind |-> "insert", col |-> column, row |-> buildInsertPayload(column, username, score),
   select |-> "", order |-> "", limit |-> 0, resp |-> Pending]

\* .select(`username,${column},created_at`).order('created_at', desc).limit(1000)
WindowLimit == 1000

SelectRequest(column) ==
  [kind |-> "select", col |-> column, row |-> NoRow,
   select |-> "username," \o column \o ",created_at", order |-> "created_at desc",
   limit |-> WindowLimit, resp |-> Pending]

\* what a call hands back: a returned value (tagged with ok or not) or a thrown Error
Ok == [how |-> "return", ok |-> "true", message |-> "", data |-> "none"]

\* faulty variant: a failure raised instead of returned
FailureRaised(message) == [how |-> "throw", ok |-> "none", message |-> message, data |-> "none"]

Failure(message) == [how |-> "return", ok |-> "false", message |-> message, data |-> "none"]

\* faulty variant: the failure of the fetch comes without its empty list
FailureWithoutData(message, data) ==
  [how |-> "return", ok |-> "false", message |-> message, data |-> "none"]

FailureWithData(message, data) ==
  [how |-> "return", ok |-> "false", message |-> message, data |-> data]

OkWithData(data) == [how |-> "return", ok |-> "true", message |-> "", data |-> data]

Rows(data) == [how |-> "return", ok |-> "none", message |-> "", data |-> data]

Thrown(message) == [how |-> "throw", ok |-> "none", message |-> message, data |-> "none"]

NoResult == [how |-> "none", ok |-> "none", message |-> "", data |-> "none"]

IdleCall ==
  [pc |-> "idle", op |-> "none", username |-> "", score |-> 0, limit |-> 0,
   seen |-> "null", preferred |-> "null", reqs |-> <<>>, ret |-> NoResult, board |-> <<>>]

\* faulty variant: the remembered column is ignored
preferredColumnDefault(remembered) == "result"

\* faulty variant: a remembered column makes the adapter prefer the other one
preferredColumnSwapped(remembered) == IF remembered = "result" THEN "score" ELSE "result"

\* this.scoreColumn ?? 'result'
preferredColumn(remembered) == IF remembered = "null" THEN "result" ELSE remembered

\* faulty variant: the retry goes out under the column that just failed
OtherSame(column) == column

\* preferred === 'result' ? 'score' : 'result'
Other(column) == IF column = "result" THEN "score" ELSE "result"

Answered(c, resp) ==
  [calls[c].reqs EXCEPT ![Len(calls[c].reqs)].resp = resp]

Req1Message(c) == calls[c].reqs[1].resp.message

Finish(c, resp, ret) ==
  calls' = [calls EXCEPT ![c].pc = "done", ![c].reqs = Answered(c, resp), ![c].ret = ret]

\* return <the LeaderboardRow[]>
FinishRows(c, resp, board) ==
  calls' = [calls EXCEPT ![c].pc = "done", ![c].reqs = Answered(c, resp),
                         ![c].ret = Rows("rows"), ![c].board = board]

----------------------------------------------------------------------------
(* The rows a select hands back: JSON values, and the conversions the code  *)
(* applies to them                                                          *)

JsUndefined == [t |-> "undefined", n |-> 0, s |-> ""]

JsNull == [t |-> "null", n |-> 0, s |-> ""]

JsNaN == [t |-> "NaN", n |-> 0, s |-> ""]

JsNumber(n) == [t |-> "number", n |-> n, s |-> ""]

JsString(s) == [t |-> "string", n |-> 0, s |-> s]

\* the seconds of a minute; times are counted in seconds since the epoch
Seconds == 0..59

TwoDigits(n) == IF n < 10 THEN "0" \o ToString(n) ELSE ToString(n)

\* the ISO-8601 text of the instant n seconds after the epoch
Iso(n) == "1970-01-01T00:00:" \o TwoDigits(n) \o "Z"

IsoSeconds == [n \in Seconds |-> Iso(n)]

Numerals == [n \in Seconds |-> ToString(n)]

\* Date.parse: the instant of an ISO-8601 text, NaN for any other text
DateParse(s) ==
  IF \E n \in Seconds : IsoSeconds[n] = s
    THEN JsNumber(CHOOSE n \in Seconds : IsoSeconds[n] = s)
    ELSE JsNaN

\* Number(value)
Number(value) ==
  CASE value.t = "number" -> value
    [] value.t = "null" -> JsNumber(0)
    [] value.t = "string" ->
         IF value.s = "" THEN JsNumber(0)
         ELSE IF \E n \in Seconds : Numerals[n] = value.s
           THEN JsNumber(CHOOSE n \in Seconds : Numerals[n] = value.s)
           ELSE JsNaN
    [] OTHER -> JsNaN

\* Number.isFinite
isFinite(value) == value.t = "number"

\* value ?? other
Coalesce(value, other) == IF value.t \in {"null", "undefined"} THEN other ELSE value

\* a row of a select of `username,<column>,created_at`; a key the row lacks reads
\* as undefined
ScoreSelectRow(username, column, value, created_at) ==
  [username |-> username,
   result |-> IF column = "result" THEN value ELSE JsUndefined,
   score |-> IF column = "score" THEN value ELSE JsUndefined,
   created_at |-> created_at]

----------------------------------------------------------------------------
(* SupabaseService.aggregateLeaderboard *)

\* .slice(0, 10)
LeaderboardSize == 10

\* faulty variant: a username that is not a string is turned into text
rowUsernameAsText(r) == IF r.username.t = "string" THEN r.username.s ELSE r.username.t

\* typeof r.username === 'string' ? r.username : ''
rowUsername(r) == IF r.username.t = "string" THEN r.username.s ELSE ""

\* faulty variant: the score is read under 'result' whatever the column
rowScoreResult(r, column) ==
  LET rawScore == Number(Coalesce(r.result, JsNumber(0)))
  IN  IF isFinite(rawScore) THEN rawScore.n ELSE 0

\* Number(r[scoreColumn] ?? 0), and 0 unless finite
rowScore(r, column) ==
  LET rawScore == Number(Coalesce(r[column], JsNumber(0)))
  IN  IF isFinite(rawScore) THEN rawScore.n ELSE 0

\* faulty variant: a text that does not parse counts as the latest instant
parseDateSafeLatest(value) ==
  IF value.t # "string" THEN 0
  ELSE LET ms == DateParse(value.s)
       IN  IF isFinite(ms) THEN ms.n ELSE 59

\* new Date(ms) of the parsed text, new Date(0) for no text or no date; a Date is
\* its getTime()
parseDateSafe(value) ==
  IF value.t # "string" THEN 0
  ELSE LET ms == DateParse(value.s)
       IN  IF isFinite(ms) THEN ms.n ELSE 0

\* faulty variant: every row opens an entry of its own
upsertAppend(byUser, username, score, playedAt) ==
  Append(byUser, [username |-> username, total |-> score, last_played |-> playedAt])

\* faulty variant: a later row of a player replaces the total instead of adding to it
upsertReplace(byUser, username, score, playedAt) ==
  LET at == {i \in 1..Len(byUser) : byUser[i].username = username}
  IN  IF at = {}
        THEN Append(byUser, [username |-> username, total |-> score, last_played |-> playedAt])
        ELSE LET i       == CHOOSE j \in at : TRUE
                 current == byUser[i]
             IN  [byUser EXCEPT ![i] =
                    [current EXCEPT
                       !.total = score,
                       !.last_played = IF playedAt > current.last_played
                                         THEN playedAt ELSE current.last_played]]

\* byUser.get(username), then byUser.set(...) or the update of `current`; the Map
\* keeps its entries in the order of insertion
upsert(byUser, username, score, playedAt) ==
  LET at == {i \in 1..Len(byUser) : byUser[i].username = username}
  IN  IF at = {}
        THEN Append(byUser, [username |-> username, total |-> score, last_played |-> playedAt])
        ELSE LET i       == CHOOSE j \in at : TRUE
                 current == byUser[i]
             IN  [byUser EXCEPT ![i] =
                    [current EXCEPT
                       !.total = current.total + score,
                       !.last_played = IF playedAt > current.last_played
                                         THEN playedAt ELSE current.last_played]]

\* for (const r of rows) { ... }
RECURSIVE groupRows(_, _, _)
groupRows(rows, column, byUser) ==
  IF rows = <<>> THEN byUser
  ELSE LET r        == Head(rows)
           username == rowUsername(r)
       IN  IF username = ""
             THEN groupRows(Tail(rows), column, byUser)
             ELSE groupRows(Tail(rows), column,
                            upsert(byUser, username, rowScore(r, column),
                                   parseDateSafe(r.created_at)))

\* faulty variant: equal totals are left as they come
compareTotalOnly(a, b) == b.total - a.total

\* (a, b) => b.total - a.total || b.last_played.getTime() - a.last_played.getTime()
compare(a, b) ==
  IF b.total - a.total # 0 THEN b.total - a.total ELSE b.last_played - a.last_played

\* faulty variant: the entries stay in the order of the Map
sortNot(entries) == entries

\* Array.prototype.sort with `compare`: a stable sort
RECURSIVE sort(_)
sort(entries) ==
  IF entries = <<>> THEN <<>>
  ELSE LET front == sort(SubSeq(entries, 1, Len(entries) - 1))
           x     == entries[Len(entries)]
           k     == Cardinality({i \in 1..Len(front) : compare(front[i], x) <= 0})
       IN  SubSeq(front, 1, k) \o <<x>> \o SubSeq(front, k + 1, Len(front))

\* faulty variant: nothing is cut off
sliceAll(entries, start, end) == entries

\* Array.prototype.slice(start, end)
slice(entries, start, end) ==
  SubSeq(entries, start + 1, IF end < Len(entries) THEN end ELSE Len(entries))

aggregateLeaderboard(rows, column) ==
  slice(sort(groupRows(rows, column, <<>>)), 0, LeaderboardSize)

----------------------------------------------------------------------------
(* The store *)

\* The error classes of the store's messages, by the phrases a message holds
\* (case-insensitive): a missing table, a missing column `column`.
TableMissingText(m) ==
  LET t == toLowerCase(m)
  IN  \/ (includes(t, "relation") /\ includes(t, "does not exist"))
      \/ includes(t, "could not find the table")
      \/ includes(t, "unknown table")
      \/ includes(t, "schema cache")

ColumnMissingText(m, column) ==
  LET t == toLowerCase(m)
  IN  /\ includes(t, "column")
      /\ includes(t, column)
      /\ (includes(t, "does not exist") \/ includes(t, "not found"))

TableMissingMessages == {m \in Messages : TableMissingText(m)}

ColumnMissingMessages == [col \in Columns |-> {m \in Messages : ColumnMissingText(m, col)}]

TableMissing(resp) == resp.failed /\ resp.message \in TableMissingMessages

ColumnMissing(resp, column) == resp.failed /\ resp.message \in ColumnMissingMessages[column]

\* an error of neither class: the transport, a permission, a constraint
OtherError(resp, column) ==
  resp.failed /\ resp \in Responses /\ ~TableMissing(resp) /\ ~ColumnMissing(resp, column)

\* the responses a store with this schema gives to a request under `column`: a
\* table without the column answers with a missing-column error that is not also a
\* missing-table error; an error of neither class can answer any request
Faithful(sch, column, resp) ==
  IF ~resp.failed THEN sch = column
  ELSE IF TableMissing(resp) THEN sch = "absent"
  ELSE IF ColumnMissing(resp, column) THEN sch \in Columns \ {column}
  ELSE TRUE

Deliver(c, resp) ==
  honest' = (honest /\ Faithful(schema, calls[c].reqs[Len(calls[c].reqs)].col, resp))

----------------------------------------------------------------------------
(* SupabaseService.saveScore *)

AllIdle == \A c \in CallIds : calls[c].pc = "idle"

\* faulty variant: no check of the client before the insert
saveScoreUnguarded(c, username, score) ==
  /\ calls[c].pc = "idle"
  /\ LET preferred == preferredColumn(scoreColumn)
     IN  calls' = [calls EXCEPT ![c] =
           [IdleCall EXCEPT !.pc = "primary", !.op = "saveScore",
                            !.username = username, !.score = score,
                            !.seen = scoreColumn, !.preferred = preferred,
                            !.reqs = <<InsertRequest(preferred, username, score)>>]]
  /\ UNCHANGED <<client, scoreColumn, warnedAboutSchema, svcWarnedAboutSchema, schema, honest>>

saveScore(c, username, score) ==
  /\ calls[c].pc = "idle"
  /\ IF client = "null"
       THEN calls' = [calls EXCEPT ![c] =
              [IdleCall EXCEPT !.pc = "done", !.op = "saveScore", !.username = username,
                               !.score = score, !.ret = Failure(SaveUnavailable)]]
       ELSE LET preferred == preferredColumn(scoreColumn)
            IN  calls' = [calls EXCEPT ![c] =
                  [IdleCall EXCEPT !.pc = "primary", !.op = "saveScore",
                                   !.username = username, !.score = score,
                                   !.seen = scoreColumn, !.preferred = preferred,
                                   !.reqs = <<InsertRequest(preferred, username, score)>>]]
  /\ UNCHANGED <<client, scoreColumn, warnedAboutSchema, svcWarnedAboutSchema, schema, honest>>

\* faulty variant: the missing-column check comes before the missing-table check
saveScorePrimaryColumnFirst(c, primary) ==
  /\ calls[c].pc = "primary"
  /\ calls[c].op = "saveScore"
  /\ Deliver(c, primary)
  /\ LET preferred == calls[c].preferred
         help      == schemaHelpMessage(warnedAboutSchema)
     IN  IF ~primary.failed
           THEN /\ scoreColumn' = preferred
                /\ Finish(c, primary, Ok)
                /\ UNCHANGED warnedAboutSchema
         ELSE IF isMissingColumnError(primary, preferred)
           THEN /\ calls' = [calls EXCEPT
                       ![c].pc = "secondary",
                       ![c].reqs = Append(Answered(c, primary),
                                          InsertRequest(Other(preferred), calls[c].username,
                                                        calls[c].score))]
                /\ UNCHANGED <<scoreColumn, warnedAboutSchema>>
         ELSE IF isMissingTableError(primary)
           THEN /\ warnedAboutSchema' = help.warned
                /\ Finish(c, primary, Failure(help.message))
                /\ UNCHANGED scoreColumn
         ELSE /\ Finish(c, primary, Failure(SaveFailedPrefix \o primary.message))
              /\ UNCHANGED <<scoreColumn, warnedAboutSchema>>
  /\ UNCHANGED <<client, svcWarnedAboutSchema, schema>>

\* faulty variant: the attempted column is remembered before its outcome is known
saveScorePrimaryEagerColumn(c, primary) ==
  /\ calls[c].pc = "primary"
  /\ calls[c].op = "saveScore"
  /\ Deliver(c, primary)
  /\ LET preferred == calls[c].preferred
         help      == schemaHelpMessage(warnedAboutSchema)
     IN  /\ scoreColumn' = preferred
         /\ IF ~primary.failed
              THEN /\ Finish(c, primary, Ok)
                   /\ UNCHANGED warnedAboutSchema
            ELSE IF isMissingTableError(primary)
              THEN /\ warnedAboutSchema' = help.warned
                   /\ Finish(c, primary, Failure(help.message))
            ELSE IF isMissingColumnError(primary, preferred)
              THEN /\ calls' = [calls EXCEPT
                          ![c].pc = "secondary",
                          ![c].reqs = Append(Answered(c, primary),
                                             InsertRequest(Other(preferred), calls[c].username,
                                                           calls[c].score))]
                   /\ UNCHANGED warnedAboutSchema
            ELSE /\ Finish(c, primary, Failure(SaveFailedPrefix \o primary.message))
                 /\ UNCHANGED warnedAboutSchema
  /\ UNCHANGED <<client, svcWarnedAboutSchema, schema>>

saveScorePrimary(c, primary) ==
  /\ calls[c].pc = "primary"
  /\ calls[c].op = "saveScore"
  /\ Deliver(c, primary)
  /\ LET preferred == calls[c].preferred
         help      == schemaHelpMessage(warnedAboutSchema)
     IN  IF ~primary.failed
           THEN /\ scoreColumn' = preferred
                /\ Finish(c, primary, Ok)
                /\ UNCHANGED warnedAboutSchema
         ELSE IF isMissingTableError(primary)
           THEN /\ warnedAboutSchema' = help.warned
                /\ Finish(c, primary, Failure(help.message))
                /\ UNCHANGED scoreColumn
         ELSE IF isMissingColumnError(primary, preferred)
           THEN /\ calls' = [calls EXCEPT
                       ![c].pc = "secondary",
                       ![c].reqs = Append(Answered(c, primary),
                                          InsertRequest(Other(preferred), calls[c].username,
                                                        calls[c].score))]
                /\ UNCHANGED <<scoreColumn, warnedAboutSchema>>
         ELSE /\ Finish(c, primary, Failure(SaveFailedPrefix \o primary.message))
              /\ UNCHANGED <<scoreColumn, warnedAboutSchema>>
  /\ UNCHANGED <<client, svcWarnedAboutSchema, schema>>

\* faulty variant: the generic failure of the retry wraps the first request's message
saveScoreSecondaryWrapsPrimary(c, secondary) ==
  /\ calls[c].pc = "secondary"
  /\ calls[c].op = "saveScore"
  /\ Deliver(c, secondary)
  /\ LET fallback == Other(calls[c].preferred)
         help     == schemaHelpMessage(warnedAboutSchema)
     IN  IF ~secondary.failed
           THEN /\ scoreColumn' = fallback
                /\ Finish(c, secondary, Ok)
                /\ UNCHANGED warnedAboutSchema
         ELSE IF isMissingTableError(secondary)
           THEN /\ warnedAboutSchema' = help.warned
                /\ Finish(c, secondary, Failure(help.message))
                /\ UNCHANGED scoreColumn
         ELSE /\ Finish(c, secondary, Failure(SaveFailedPrefix \o Req1Message(c)))
              /\ UNCHANGED <<scoreColumn, warnedAboutSchema>>
  /\ UNCHANGED <<client, svcWarnedAboutSchema, schema>>

\* faulty variant: the retry's column is remembered before its outcome is known
saveScoreSecondaryEagerColumn(c, secondary) ==
  /\ calls[c].pc = "secondary"
  /\ calls[c].op = "saveScore"
  /\ Deliver(c, secondary)
  /\ LET fallback == Other(calls[c].preferred)
         help     == schemaHelpMessage(warnedAboutSchema)
     IN  /\ scoreColumn' = fallback
         /\ IF ~secondary.failed
              THEN /\ Finish(c, secondary, Ok)
                   /\ UNCHANGED warnedAboutSchema
            ELSE IF isMissingTableError(secondary)
              THEN /\ warnedAboutSchema' = help.warned
                   /\ Finish(c, secondary, Failure(help.message))
            ELSE /\ Finish(c, secondary, Failure(SaveFailedPrefix \o secondary.message))
                 /\ UNCHANGED warnedAboutSchema
  /\ UNCHANGED <<client, svcWarnedAboutSchema, schema>>

saveScoreSecondary(c, secondary) ==
  /\ calls[c].pc = "secondary"
  /\ calls[c].op = "saveScore"
  /\ Deliver(c, secondary)
  /\ LET fallback == Other(calls[c].preferred)
         help     == schemaHelpMessage(warnedAboutSchema)
     IN  IF ~secondary.failed
           THEN /\ scoreColumn' = fallback
                /\ Finish(c, secondary, Ok)
                /\ UNCHANGED warnedAboutSchema
         ELSE IF isMissingTableError(secondary)
           THEN /\ warnedAboutSchema' = help.warned
                /\ Finish(c, secondary, Failure(help.message))
                /\ UNCHANGED scoreColumn
         ELSE /\ Finish(c, secondary, Failure(SaveFailedPrefix \o secondary.message))
              /\ UNCHANGED <<scoreColumn, warnedAboutSchema>>
  /\ UNCHANGED <<client, svcWarnedAboutSchema, schema>>

----------------------------------------------------------------------------
(* SupabaseService.getLeaderboard *)

getLeaderboard(c) ==
  /\ calls[c].pc = "idle"
  /\ IF client = "null"
       THEN calls' = [calls EXCEPT ![c] =
              [IdleCall EXCEPT !.pc = "done", !.op = "getLeaderboard", !.ret = Rows("empty")]]
       ELSE LET preferred == preferredColumn(scoreColumn)
            IN  calls' = [calls EXCEPT ![c] =
                  [IdleCall EXCEPT !.pc = "primary", !.op = "getLeaderboard",
                                   !.seen = scoreColumn, !.preferred = preferred,
                                   !.reqs = <<SelectRequest(preferred)>>]]
  /\ UNCHANGED <<client, scoreColumn, warnedAboutSchema, svcWarnedAboutSchema, schema, honest>>

\* faulty variant: any failure of the first select is answered with a retry
getLeaderboardPrimaryRetryAny(c, resPrimary) ==
  /\ calls[c].pc = "primary"
  /\ calls[c].op = "getLeaderboard"
  /\ Deliver(c, resPrimary)
  /\ LET preferred == calls[c].preferred
     IN  IF resPrimary.failed
           THEN /\ calls' = [calls EXCEPT
                       ![c].pc = "secondary",
                       ![c].reqs = Append(Answered(c, resPrimary),
                                          SelectRequest(Other(preferred)))]
                /\ UNCHANGED <<scoreColumn, warnedAboutSchema>>
         ELSE /\ scoreColumn' = preferred
              /\ FinishRows(c, resPrimary, aggregateLeaderboard(resPrimary.data, preferred))
              /\ UNCHANGED warnedAboutSchema
  /\ UNCHANGED <<client, svcWarnedAboutSchema, schema>>

getLeaderboardPrimary(c, resPrimary) ==
  /\ calls[c].pc = "primary"
  /\ calls[c].op = "getLeaderboard"
  /\ Deliver(c, resPrimary)
  /\ LET preferred == calls[c].preferred
         help      == schemaHelpMessage(warnedAboutSchema)
     IN  IF resPrimary.failed /\ isMissingColumnError(resPrimary, preferred)
           THEN /\ calls' = [calls EXCEPT
                       ![c].pc = "secondary",
                       ![c].reqs = Append(Answered(c, resPrimary),
                                          SelectRequest(Other(preferred)))]
                /\ UNCHANGED <<scoreColumn, warnedAboutSchema>>
         ELSE IF resPrimary.failed
           THEN IF isMissingTableError(resPrimary)
                  THEN /\ warnedAboutSchema' = help.warned
                       /\ Finish(c, resPrimary, Thrown(help.message))
                       /\ UNCHANGED scoreColumn
                  ELSE /\ Finish(c, resPrimary, Thrown(LoadFailedPrefix \o resPrimary.message))
                       /\ UNCHANGED <<scoreColumn, warnedAboutSchema>>
         ELSE /\ scoreColumn' = preferred
              /\ FinishRows(c, resPrimary, aggregateLeaderboard(resPrimary.data, preferred))
              /\ UNCHANGED warnedAboutSchema
  /\ UNCHANGED <<client, svcWarnedAboutSchema, schema>>

getLeaderboardFallback(c, resFallback) ==
  /\ calls[c].pc = "secondary"
  /\ calls[c].op = "getLeaderboard"
  /\ Deliver(c, resFallback)
  /\ LET fallback == Other(calls[c].preferred)
         help     == schemaHelpMessage(warnedAboutSchema)
     IN  IF resFallback.failed
           THEN IF isMissingTableError(resFallback)
                  THEN /\ warnedAboutSchema' = help.warned
                       /\ Finish(c, resFallback, Thrown(help.message))
                       /\ UNCHANGED scoreColumn
                  ELSE /\ Finish(c, resFallback, Thrown(LoadFailedPrefix \o resFallback.message))
                       /\ UNCHANGED <<scoreColumn, warnedAboutSchema>>
         ELSE /\ scoreColumn' = fallback
              /\ FinishRows(c, resFallback, aggregateLeaderboard(resFallback.data, fallback))
              /\ UNCHANGED warnedAboutSchema
  /\ UNCHANGED <<client, svcWarnedAboutSchema, schema>>

----------------------------------------------------------------------------
(* The non-negotiating service variant: saveScore / getTopScores over the   *)
(* 'score' column, with its own warnedAboutSchema                           *)

SvcVerboseHelp ==
  "Supabase table \"scores\" is missing or not accessible.\nCreate it in Supabase SQL editor with:\n\ncreate extension if not exists \"uuid-ossp\";\n\ncreate table if not exists public.scores (\n  id uuid primary key default uuid_generate_v4(),\n  username text not null,\n  score numeric not null,\n  created_at timestamptz not null default now()\n);\n\n-- Optional: allow anon inserts/selects for MVP (adjust for production)\nalter table public.scores enable row level security;\n\ncreate policy \"anon_read_scores\"\non public.scores for select\nto anon\nusing (true);\n\ncreate policy \"anon_insert_scores\"\non public.scores for insert\nto anon\nwith check (true);"

\* this variant's schemaHelpMessage() only reads warnedAboutSchema
svcSchemaHelpMessage(warned) == IF warned THEN TerseHelp ELSE SvcVerboseHelp

SvcSaveUnavailable == "Score saving is unavailable right now."

SvcLeaderboardUnavailable == "Leaderboard is unavailable right now."

TopScoresRequest(limit) ==
  [kind |-> "select", col |-> "score", row |-> NoRow,
   select |-> "username,score,created_at", order |-> "score desc,created_at desc",
   limit |-> limit, resp |-> Pending]

svcSaveScore(c, username, score) ==
  /\ calls[c].pc = "idle"
  /\ IF client = "null"
       THEN calls' = [calls EXCEPT ![c] =
              [IdleCall EXCEPT !.pc = "done", !.op = "svcSaveScore", !.username = username,
                               !.score = score, !.ret = Failure(SvcSaveUnavailable)]]
       ELSE calls' = [calls EXCEPT ![c] =
              [IdleCall EXCEPT !.pc = "primary", !.op = "svcSaveScore",
                               !.username = username, !.score = score,
                               !.preferred = "score",
                               !.reqs = <<InsertRequest("score", username, score)>>]]
  /\ UNCHANGED <<client, scoreColumn, warnedAboutSchema, svcWarnedAboutSchema, schema, honest>>

svcSaveScoreInsert(c, insert) ==
  /\ calls[c].pc = "primary"
  /\ calls[c].op = "svcSaveScore"
  /\ Deliver(c, insert)
  /\ IF ~insert.failed
       THEN /\ Finish(c, insert, Ok)
            /\ UNCHANGED svcWarnedAboutSchema
     ELSE IF isMissingTableError(insert)
       THEN /\ svcWarnedAboutSchema' = TRUE
            /\ Finish(c, insert, Failure(svcSchemaHelpMessage(svcWarnedAboutSchema)))
     ELSE /\ Finish(c, insert, Failure(SaveFailedPrefix \o insert.message))
          /\ UNCHANGED svcWarnedAboutSchema
  /\ UNCHANGED <<client, scoreColumn, warnedAboutSchema, schema>>

getTopScores(c, limit) ==
  /\ calls[c].pc = "idle"
  /\ IF client = "null"
       THEN calls' = [calls EXCEPT ![c] =
              [IdleCall EXCEPT !.pc = "done", !.op = "getTopScores", !.limit = limit,
                               !.ret = FailureWithData(SvcLeaderboardUnavailable, "empty")]]
       ELSE calls' = [calls EXCEPT ![c] =
              [IdleCall EXCEPT !.pc = "primary", !.op = "getTopScores", !.limit = limit,
                               !.preferred = "score",
                               !.reqs = <<TopScoresRequest(limit)>>]]
  /\ UNCHANGED <<client, scoreColumn, warnedAboutSchema, svcWarnedAboutSchema, schema, honest>>

\* a response without error carries its rows (res.data is then an array)
getTopScoresRes(c, res) ==
  /\ calls[c].pc = "primary"
  /\ calls[c].op = "getTopScores"
  /\ Deliver(c, res)
  /\ IF ~res.failed
       THEN Finish(c, res, OkWithData("rows"))
     ELSE IF isMissingTableError(res)
       THEN Finish(c, res, FailureWithData(svcSchemaHelpMessage(svcWarnedAboutSchema), "empty"))
     ELSE Finish(c, res, FailureWithData(LoadFailedPrefix \o res.message, "empty"))
  /\ UNCHANGED <<client, scoreColumn, warnedAboutSchema, svcWarnedAboutSchema, schema>>

----------------------------------------------------------------------------
(* The caller takes the result; the slot is free again *)

Return(c) ==
  /\ calls[c].pc = "done"
  /\ calls' = [calls EXCEPT ![c] = IdleCall]
  /\ UNCHANGED <<client, scoreColumn, warnedAboutSchema, svcWarnedAboutSchema, schema, honest>>

----------------------------------------------------------------------------
(* The store as a table: inserts append a row stamped with the store's clock, *)
(* selects hand back the most recent rows                                     *)

MaxInserts == 2

\* the players of this adapter; the code accepts the empty name
BoardUsernames == Usernames \cup {""}

\* rows other clients have stored: ten players with one win each
OtherPlayers(column) ==
  [k \in 1..LeaderboardSize |->
     ScoreSelectRow(JsString("p" \o TwoDigits(k)), column, JsNumber(2), JsString(Iso(k)))]

\* created_at timestamptz default now(): one tick per row
StoreNow(tbl) == Len(tbl) + 1

StoredRow(tbl, req) ==
  ScoreSelectRow(JsString(req.row.username), req.col, JsNumber(req.row[req.col]),
                 JsString(Iso(StoreNow(tbl))))

\* .order('created_at', { ascending: false }).limit(limit)
Window(tbl, limit) ==
  LET recent == [i \in 1..Len(tbl) |-> tbl[Len(tbl) + 1 - i]]
  IN  SubSeq(recent, 1, IF limit < Len(tbl) THEN limit ELSE Len(tbl))

StoreAnswer(tbl, sch, req) ==
  IF sch = "absent"
    THEN [failed |-> TRUE, message |-> "relation \"public.scores\" does not exist",
          data |-> <<>>]
  ELSE IF req.col # sch
    THEN [failed |-> TRUE, message |-> "column scores." \o req.col \o " does not exist",
          data |-> <<>>]
  ELSE IF req.kind = "select"
    THEN [failed |-> FALSE, message |-> "", data |-> Window(tbl, req.limit)]
  ELSE NoError

StoreAfter(tbl, sch, req) ==
  IF req.kind = "insert" /\ req.col = sch THEN Append(tbl, StoredRow(tbl, req)) ELSE tbl

LastReq(c) == calls[c].reqs[Len(calls[c].reqs)]

Waiting(c) == calls[c].pc \in {"primary", "secondary"}

Inserted(tbl) == Cardinality({i \in 1..Len(tbl) : tbl[i].username.s \in BoardUsernames})

NoAgg == [pc |-> "none", rows |-> <<>>, column |-> "result", out |-> <<>>]

----------------------------------------------------------------------------
(* ToastService *)

NoToast == [kind |-> "none", text |-> ""]

\* setTimeout(() => { ... this.toast.set(null) ... }, 4000), closed over `text`
HideTimer(text) == [callback |-> "hide", text |-> text]

\* setTimeout(() => this.aiMove(), 250)
AiMoveTimer == [callback |-> "aiMove", text |-> ""]

\* ToastService.show(kind, text), with `queue` the timers due before the call
\* (createdAt is set here and read nowhere)
show(kind, text, queue) ==
  /\ toast' = [kind |-> kind, text |-> text]
  /\ timers' = Append(queue, HideTimer(text))

\* the auto-hide callback of show(_, text)
hide ==
  /\ timers # <<>>
  /\ timers[1].callback = "hide"
  /\ toast' = IF toast # NoToast /\ toast.text = timers[1].text THEN NoToast ELSE toast
  /\ timers' = Tail(timers)
  /\ UNCHANGED <<gameUsername, aiEnabled, gameBoard, currentPlayer, gameOver,
                 usernameRequiredToSave, calls>>

\* ToastService.clear(): the callbacks already set stay set
clear ==
  /\ toast' = NoToast
  /\ UNCHANGED <<timers, gameUsername, aiEnabled, gameBoard, currentPlayer, gameOver,
                 usernameRequiredToSave, calls>>

----------------------------------------------------------------------------
(* GameComponent *)

Cells == 0..8

EmptyBoard == [i \in Cells |-> "null"]

\* the rows, the columns and the diagonals, in the order getWinner tries them
Lines ==
  << <<0, 1, 2>>, <<3, 4, 5>>, <<6, 7, 8>>,
     <<0, 3, 6>>, <<1, 4, 7>>, <<2, 5, 8>>,
     <<0, 4, 8>>, <<2, 4, 6>> >>

\* String.prototype.trim
WhiteSpace == {" ", "\t", "\n"}

RECURSIVE trimStart(_)
trimStart(s) ==
  IF Len(s) > 0 /\ SubSeq(s, 1, 1) \in WhiteSpace THEN trimStart(SubSeq(s, 2, Len(s))) ELSE s

RECURSIVE trimEnd(_)
trimEnd(s) ==
  IF Len(s) > 0 /\ SubSeq(s, Len(s), Len(s)) \in WhiteSpace
    THEN trimEnd(SubSeq(s, 1, Len(s) - 1))
    ELSE s

\* faulty variant: only the blanks in front are removed
trimStartOnly(s) == trimStart(s)

trim(s) == trimEnd(trimStart(s))

\* scores in half points, as in Scores
Win == 2

Draw == 1

Loss == 0

\* `${score}`: 1, 0.5, 0
ScoreText(score) ==
  IF score % 2 = 0 THEN ToString(score \div 2) ELSE ToString(score \div 2) \o ".5"

UsernameNeeded == "Add a username to save your score."

SavedText(score, name) == "Saved score (" \o ScoreText(score) \o ") for " \o name \o "."

\* HAS_SUPABASE: the client exists exactly when it is true
hasSupabase == client = "client"

\* the first line whose three cells hold the same mark, if any
getWinner(b) ==
  LET won == {k \in 1..Len(Lines) :
                /\ b[Lines[k][1]] # "null"
                /\ b[Lines[k][1]] = b[Lines[k][2]]
                /\ b[Lines[k][1]] = b[Lines[k][3]]}
  IN  IF won = {} THEN "null"
      ELSE b[Lines[CHOOSE k \in won : \A j \in won : k <= j][1]]

isDraw(b) == (\A i \in Cells : b[i] # "null") /\ getWinner(b) = "null"

\* faulty variant: every line counts as a win
scoreForWinnerWin(winner) == Win

scoreForWinner(winner) == IF winner = "X" THEN Win ELSE Loss

\* endGame(score) up to its await, with `queue` the timers due before the call
endGame(score, queue) ==
  /\ gameOver' = TRUE
  /\ IF hasSupabase /\ Len(trim(gameUsername)) = 0
       THEN /\ usernameRequiredToSave' = TRUE
            /\ show("info", UsernameNeeded, queue)
            /\ UNCHANGED calls
     ELSE IF ~hasSupabase
       THEN /\ timers' = queue
            /\ UNCHANGED <<usernameRequiredToSave, toast, calls>>
     ELSE /\ \E c \in CallIds :
               /\ \A d \in 1..(c - 1) : calls[d].pc # "idle"
               /\ saveScore(c, trim(gameUsername), score)
          /\ timers' = queue
          /\ UNCHANGED <<usernameRequiredToSave, toast>>

\* endGame after its await: the save of call c has returned
endGameSaved(c) ==
  /\ calls[c].pc = "done"
  /\ calls[c].op = "saveScore"
  /\ IF calls[c].ret.ok = "true"
       THEN show("success", SavedText(calls[c].score, trim(gameUsername)), timers)
       ELSE show("error", calls[c].ret.message, timers)
  /\ calls' = [calls EXCEPT ![c] = IdleCall]
  /\ UNCHANGED <<gameUsername, aiEnabled, gameBoard, currentPlayer, gameOver,
                 usernameRequiredToSave>>

\* faulty variant: no check of gameOver before the move
makeMoveAfterEnd(index, queue) ==
  /\ IF gameBoard[index] # "null"
       THEN /\ timers' = queue
            /\ UNCHANGED <<gameBoard, currentPlayer, gameOver, usernameRequiredToSave, toast,
                           calls>>
       ELSE LET b      == [gameBoard EXCEPT ![index] = currentPlayer]
                winner == getWinner(b)
            IN  /\ gameBoard' = b
                /\ IF winner # "null"
                     THEN endGame(scoreForWinner(winner), queue) /\ UNCHANGED currentPlayer
                   ELSE IF isDraw(b)
                     THEN endGame(Draw, queue) /\ UNCHANGED currentPlayer
                   ELSE /\ currentPlayer' = (IF currentPlayer = "X" THEN "O" ELSE "X")
                        /\ timers' = IF aiEnabled /\ currentPlayer' = "O"
                                       THEN Append(queue, AiMoveTimer)
                                       ELSE queue
                        /\ UNCHANGED <<gameOver, usernameRequiredToSave, toast, calls>>
  /\ UNCHANGED <<gameUsername, aiEnabled>>

makeMove(index, queue) ==
  /\ IF gameOver \/ gameBoard[index] # "null"
       THEN /\ timers' = queue
            /\ UNCHANGED <<gameBoard, currentPlayer, gameOver, usernameRequiredToSave, toast,
                           calls>>
       ELSE LET b      == [gameBoard EXCEPT ![index] = currentPlayer]
                winner == getWinner(b)
            IN  /\ gameBoard' = b
                /\ IF winner # "null"
                     THEN endGame(scoreForWinner(winner), queue) /\ UNCHANGED currentPlayer
                   ELSE IF isDraw(b)
                     THEN endGame(Draw, queue) /\ UNCHANGED currentPlayer
                   ELSE /\ currentPlayer' = (IF currentPlayer = "X" THEN "O" ELSE "X")
                        /\ timers' = IF aiEnabled /\ currentPlayer' = "O"
                                       THEN Append(queue, AiMoveTimer)
                                       ELSE queue
                        /\ UNCHANGED <<gameOver, usernameRequiredToSave, toast, calls>>
  /\ UNCHANGED <<gameUsername, aiEnabled>>

reset ==
  /\ gameBoard' = EmptyBoard
  /\ currentPlayer' = "X"
  /\ gameOver' = FALSE
  /\ usernameRequiredToSave' = FALSE
  /\ UNCHANGED <<gameUsername, aiEnabled, toast, timers, calls>>

\* the timers but the i-th
Without(queue, i) == SubSeq(queue, 1, i - 1) \o SubSeq(queue, i + 1, Len(queue))

\* a callback runs when its delay is over: an aiMove (250 ms) after the aiMove
\* callbacks set before it, a hide (4000 ms) after every callback set before it
Due(i) ==
  /\ i \in 1..Len(timers)
  /\ IF timers[i].callback = "aiMove"
       THEN \A j \in 1..(i - 1) : timers[j].callback # "aiMove"
       ELSE i = 1

\* the callback of timer i: aiMove()
aiMove(i) ==
  /\ Due(i)
  /\ timers[i].callback = "aiMove"
  /\ LET open == {k \in Cells : gameBoard[k] = "null"}
     IN  IF gameOver \/ open = {}
           THEN /\ timers' = Without(timers, i)
                /\ UNCHANGED <<gameUsername, aiEnabled, gameBoard, currentPlayer, gameOver,
                               usernameRequiredToSave, toast, calls>>
           ELSE \E choice \in open : makeMove(choice, Without(timers, i))

onUsernameBlur ==
  /\ usernameRequiredToSave' =
       IF Len(trim(gameUsername)) > 0 THEN FALSE ELSE usernameRequiredToSave
  /\ UNCHANGED <<gameUsername, aiEnabled, gameBoard, currentPlayer, gameOver, toast, timers,
                 calls>>

\* [(ngModel)]="username"
setUsername(text) ==
  /\ gameUsername' = text
  /\ UNCHANGED <<aiEnabled, gameBoard, currentPlayer, gameOver, usernameRequiredToSave, toast,
                 timers, calls>>

\* [(ngModel)]="aiEnabled"
setAiEnabled(on) ==
  /\ aiEnabled' = on
  /\ UNCHANGED <<gameUsername, gameBoard, currentPlayer, gameOver, usernameRequiredToSave, toast,
                 timers, calls>>

\* the component and the toast service after construction
GameConstructed ==
  /\ gameUsername = ""
  /\ aiEnabled = TRUE
  /\ gameBoard = EmptyBoard
  /\ currentPlayer = "X"
  /\ gameOver = FALSE
  /\ usernameRequiredToSave = FALSE
  /\ toast = NoToast
  /\ timers = <<>>

----------------------------------------------------------------------------
(* One caller context at a time: a call starts when no other is in flight *)

Init ==
  /\ client \in {"client", "null"}
  /\ scoreColumn = "null"
  /\ warnedAboutSchema = FALSE
  /\ svcWarnedAboutSchema = FALSE
  /\ schema \in Schemas
  /\ honest = TRUE
  /\ calls = [c \in CallIds |-> IdleCall]
  /\ table = <<>>
  /\ agg = NoAgg
  /\ GameConstructed

\* the store answers as it likes; what the table holds is left open
Next ==
  \E c \in CallIds :
    \/ \E u \in Usernames, s \in Scores : AllIdle /\ saveScore(c, u, s) /\ UNCHANGED <<table, agg, gameVars>>
    \/ \E r \in Responses : saveScorePrimary(c, r) /\ UNCHANGED <<table, agg, gameVars>>
    \/ \E r \in Responses : saveScoreSecondary(c, r) /\ UNCHANGED <<table, agg, gameVars>>
    \/ AllIdle /\ getLeaderboard(c) /\ UNCHANGED <<table, agg, gameVars>>
    \/ \E r \in Responses : getLeaderboardPrimary(c, r) /\ UNCHANGED <<table, agg, gameVars>>
    \/ \E r \in Responses : getLeaderboardFallback(c, r) /\ UNCHANGED <<table, agg, gameVars>>
    \/ \E u \in Usernames, s \in Scores : AllIdle /\ svcSaveScore(c, u, s) /\ UNCHANGED <<table, agg, gameVars>>
    \/ \E r \in Responses : svcSaveScoreInsert(c, r) /\ UNCHANGED <<table, agg, gameVars>>
    \/ \E n \in Limits : AllIdle /\ getTopScores(c, n) /\ UNCHANGED <<table, agg, gameVars>>
    \/ \E r \in Responses : getTopScoresRes(c, r) /\ UNCHANGED <<table, agg, gameVars>>
    \/ Return(c) /\ UNCHANGED <<table, agg, gameVars>>

Spec == Init /\ [][Next]_vars

----------------------------------------------------------------------------
(* The adapter over a store that keeps its table and answers by it *)

BoardInit ==
  /\ client = "client"
  /\ scoreColumn = "null"
  /\ warnedAboutSchema = FALSE
  /\ svcWarnedAboutSchema = FALSE
  /\ schema \in Schemas
  /\ honest = TRUE
  /\ calls = [c \in CallIds |-> IdleCall]
  /\ table \in IF schema = "absent" THEN {<<>>} ELSE {<<>>, OtherPlayers(schema)}
  /\ agg = NoAgg
  /\ GameConstructed

BoardNext ==
  \E c \in CallIds :
    \/ \E u \in BoardUsernames, s \in Scores :
         AllIdle /\ Inserted(table) < MaxInserts /\ saveScore(c, u, s)
           /\ UNCHANGED <<table, agg, gameVars>>
    \/ Waiting(c) /\ saveScorePrimary(c, StoreAnswer(table, schema, LastReq(c)))
         /\ table' = StoreAfter(table, schema, LastReq(c)) /\ UNCHANGED <<agg, gameVars>>
    \/ Waiting(c) /\ saveScoreSecondary(c, StoreAnswer(table, schema, LastReq(c)))
         /\ table' = StoreAfter(table, schema, LastReq(c)) /\ UNCHANGED <<agg, gameVars>>
    \/ AllIdle /\ getLeaderboard(c) /\ UNCHANGED <<table, agg, gameVars>>
    \/ Waiting(c) /\ getLeaderboardPrimary(c, StoreAnswer(table, schema, LastReq(c)))
         /\ UNCHANGED <<table, agg, gameVars>>
    \/ Waiting(c) /\ getLeaderboardFallback(c, StoreAnswer(table, schema, LastReq(c)))
         /\ UNCHANGED <<table, agg, gameVars>>
    \/ Return(c) /\ UNCHANGED <<table, agg, gameVars>>

SpecBoard == BoardInit /\ [][BoardNext]_vars

----------------------------------------------------------------------------
(* aggregateLeaderboard applied to row lists of every kind *)

MaxRows == 2

\* rows as a select can hand them back: scores and timestamps that are numbers
\* and ISO texts, and cells that are missing, null or something else
AggRowValues(column) ==
  { ScoreSelectRow(JsString(u), column, JsNumber(v), JsString(Iso(t))) :
      u \in Usernames, v \in {1, 2}, t \in {1, 2} }
  \cup
  { ScoreSelectRow(JsString("ann"), column, JsUndefined, JsString(Iso(2))),
    ScoreSelectRow(JsString("ann"), column, JsString("n/a"), JsString(Iso(1))),
    ScoreSelectRow(JsString("bob"), column, JsNumber(2), JsString("yesterday")),
    ScoreSelectRow(JsString("bob"), column, JsNumber(1), JsNull),
    ScoreSelectRow(JsString(""), column, JsNumber(2), JsString(Iso(2))),
    ScoreSelectRow(JsNull, column, JsNumber(2), JsString(Iso(2))) }

AggInputs(column) ==
  LET few == UNION {[1..n -> AggRowValues(column)] : n \in 0..MaxRows}
  IN  few \cup {OtherPlayers(column) \o rs : rs \in few}
          \cup {rs \o OtherPlayers(column) : rs \in few}

AggInit ==
  /\ client = "client"
  /\ scoreColumn = "null"
  /\ warnedAboutSchema = FALSE
  /\ svcWarnedAboutSchema = FALSE
  /\ schema = "result"
  /\ honest = TRUE
  /\ calls = [c \in CallIds |-> IdleCall]
  /\ table = <<>>
  /\ \E column \in Columns :
       agg \in {[pc |-> "args", rows |-> rs, column |-> column, out |-> <<>>] :
                  rs \in AggInputs(column)}
  /\ GameConstructed

Aggregate ==
  /\ agg.pc = "args"
  /\ agg' = [agg EXCEPT !.pc = "done", !.out = aggregateLeaderboard(agg.rows, agg.column)]
  /\ UNCHANGED <<client, scoreColumn, warnedAboutSchema, svcWarnedAboutSchema, schema,
                 honest, calls, table, gameVars>>

AggNext == Aggregate

SpecAggregate == AggInit /\ [][AggNext]_vars

----------------------------------------------------------------------------
(* Overlapping invocations: a call may start while others wait for the store. *)
(* Each await yields to the event loop, so the steps of the calls in flight   *)
(* interleave in any order; between two awaits a call runs alone.  The        *)
(* adapter serves MaxCalls invocations in its lifetime, each in its own slot. *)

\* one of each kind of answer: success, a missing table, a missing column of either
\* name, the message of both classes, and an error of neither class
OverlapMessages ==
  { "relation \"public.scores\" does not exist",
    "column scores.result does not exist",
    "column scores.score does not exist",
    "column \"result\" of relation \"scores\" does not exist",
    "permission denied for relation scores" }

OverlapResponses ==
  {NoError} \cup {[failed |-> TRUE, message |-> m, data |-> <<>>] : m \in OverlapMessages}

\* the table has one of the two columns, whatever the store then answers
OverlapInit ==
  /\ client = "client"
  /\ scoreColumn = "null"
  /\ warnedAboutSchema = FALSE
  /\ svcWarnedAboutSchema = FALSE
  /\ schema \in Columns
  /\ honest = TRUE
  /\ calls = [c \in CallIds |-> IdleCall]
  /\ table = <<>>
  /\ agg = NoAgg
  /\ GameConstructed

OverlapNext ==
  \E c \in CallIds :
    \/ \E u \in {"ann"}, s \in {1} : saveScore(c, u, s) /\ UNCHANGED <<table, agg, gameVars>>
    \/ \E r \in OverlapResponses : saveScorePrimary(c, r) /\ UNCHANGED <<table, agg, gameVars>>
    \/ \E r \in OverlapResponses : saveScoreSecondary(c, r) /\ UNCHANGED <<table, agg, gameVars>>
    \/ getLeaderboard(c) /\ UNCHANGED <<table, agg, gameVars>>
    \/ \E r \in OverlapResponses : getLeaderboardPrimary(c, r) /\ UNCHANGED <<table, agg, gameVars>>
    \/ \E r \in OverlapResponses : getLeaderboardFallback(c, r) /\ UNCHANGED <<table, agg, gameVars>>

SpecOverlap == OverlapInit /\ [][OverlapNext]_vars

----------------------------------------------------------------------------
(* The game over the adapter: clicks, the name input, the AI switch, reset, *)
(* the timer callbacks and the store's answers, in any order.  Supabase is  *)
(* not configured, or configured with a table that has the older column.    *)

MaxTimers == 2

\* what the player types: nothing, blanks, a name with blanks around it
GameUsernames == {"", "  ", " ann "}

\* the player starts the next game when the save of the last one has returned and
\* its toast has gone; aiMove callbacks may still be due
Quiet ==
  /\ \A c \in CallIds : calls[c].pc = "idle"
  /\ \A i \in 1..Len(timers) : timers[i].callback = "aiMove"

AdapterVars ==
  <<client, scoreColumn, warnedAboutSchema, svcWarnedAboutSchema, schema, honest, table, agg>>

GameInit ==
  /\ \E config \in {<<"null", "absent">>, <<"client", "score">>} :
       client = config[1] /\ schema = config[2]
  /\ scoreColumn = "null"
  /\ warnedAboutSchema = FALSE
  /\ svcWarnedAboutSchema = FALSE
  /\ honest = TRUE
  /\ calls = [c \in CallIds |-> IdleCall]
  /\ table = <<>>
  /\ agg = NoAgg
  /\ GameConstructed

GameNext ==
  \/ \E index \in Cells :
       Len(timers) < MaxTimers /\ makeMove(index, timers) /\ UNCHANGED AdapterVars
  \/ \E i \in 1..MaxTimers : aiMove(i) /\ UNCHANGED AdapterVars
  \/ Quiet /\ reset /\ UNCHANGED AdapterVars
  \/ onUsernameBlur /\ UNCHANGED AdapterVars
  \/ \E text \in GameUsernames : setUsername(text) /\ UNCHANGED AdapterVars
  \/ \E on \in BOOLEAN : setAiEnabled(on) /\ UNCHANGED AdapterVars
  \/ hide /\ UNCHANGED AdapterVars
  \/ \E c \in CallIds :
       \/ Waiting(c) /\ saveScorePrimary(c, StoreAnswer(table, schema, LastReq(c)))
            /\ UNCHANGED <<table, agg, gameVars>>
       \/ Waiting(c) /\ saveScoreSecondary(c, StoreAnswer(table, schema, LastReq(c)))
            /\ UNCHANGED <<table, agg, gameVars>>
       \/ Len(timers) < MaxTimers /\ endGameSaved(c) /\ UNCHANGED AdapterVars

SpecGame == GameInit /\ [][GameNext]_vars

----------------------------------------------------------------------------
(* The toast service on its own: any caller shows and clears, the auto-hide *)
(* callbacks run in the order they were set (all have the same delay).      *)

MaxHides == 3

ToastKinds == {"info", "error", "success"}

\* texts the callers show: the game's two and a failure message of the store
ToastTexts == {UsernameNeeded, SavedText(Win, "ann"), "permission denied for table scores"}

ToastInit == GameInit

ToastNext ==
  \/ \E kind \in ToastKinds, text \in ToastTexts :
       /\ Len(timers) < MaxHides
       /\ show(kind, text, timers)
       /\ UNCHANGED <<gameUsername, aiEnabled, gameBoard, currentPlayer, gameOver,
                      usernameRequiredToSave, calls>>
       /\ UNCHANGED AdapterVars
  \/ clear /\ UNCHANGED AdapterVars
  \/ hide /\ UNCHANGED AdapterVars

SpecToast == ToastInit /\ [][ToastNext]_vars

----------------------------------------------------------------------------
(* Properties *)

Done(c) == calls[c].pc = "done"

NReq(c) == Len(calls[c].reqs)

Req(c, i) == calls[c].reqs[i]

Negotiating(c) == calls[c].op \in {"saveScore", "getLeaderboard"}

Tagged(ret) == ret.how = "return" /\ ret.ok \in {"true", "false"}

\* every answered request of the call got a response of the store's schema, and
\* none was an error of neither class
Clean(c) ==
  \A i \in 1..NReq(c) :
    /\ Req(c, i).resp \in Responses
    /\ Faithful(schema, Req(c, i).col, Req(c, i).resp)
    /\ ~OtherError(Req(c, i).resp, Req(c, i).col)

\* C1 as stated: whatever the store answers on the first request and on the retry,
\* saveScore and getLeaderboard complete by returning a tagged result, {ok: true ...}
\* or {ok: false, message ...}, and never by raising an exception.
\* (Checked on the calls whose last request failed: they are the ones that can raise.)
C1_NeverThrows ==
  \A c \in CallIds :
    (Done(c) /\ Negotiating(c) /\ NReq(c) >= 1 /\ Req(c, NReq(c)).resp.failed) =>
      /\ calls[c].ret.how = "return"
      /\ calls[c].ret.ok = "false"
      /\ calls[c].ret.message # ""

\* C1 amended: saveScore never throws and returns {ok: true} or {ok: false, message}
\* with a non-empty message for every response of the store; getLeaderboard returns
\* the bare row list when a request succeeds and completes by throwing an Error that
\* carries the message whenever its last request failed.
C1_SaveTaggedLeaderboardThrows ==
  \A c \in CallIds :
    (Done(c) /\ NReq(c) >= 1) =>
      LET last == Req(c, NReq(c)).resp
          ret  == calls[c].ret
      IN  /\ calls[c].op = "saveScore" =>
               /\ Tagged(ret)
               /\ (ret.ok = "true") = ~last.failed
               /\ ret.ok = "false" => ret.message # ""
          /\ calls[c].op = "getLeaderboard" =>
               /\ last.failed => (ret.how = "throw" /\ ret.message # "")
               /\ ~last.failed => ret = Rows("rows")

\* a getLeaderboard whose retry failed has thrown
C1_Witness ==
  \E c \in CallIds :
    /\ Done(c) /\ calls[c].op = "getLeaderboard" /\ NReq(c) = 2
    /\ Req(c, 2).resp.failed /\ calls[c].ret.how = "throw"

C3_RememberedColumnNoRetry ==
  \A c \in CallIds :
    (Negotiating(c) /\ NReq(c) >= 1 /\ calls[c].seen # "null" /\ honest) =>
      /\ NReq(c) = 1
      /\ Req(c, 1).col = calls[c].seen
      /\ calls[c].seen = schema

C3_Witness ==
  \E c \in CallIds :
    /\ Done(c) /\ calls[c].op = "saveScore" /\ honest /\ calls[c].seen = "score"
    /\ NReq(c) = 1 /\ calls[c].ret = Ok

\* the help texts that hold the DDL ("create table", in any case)
WithCreateTable ==
  {m \in {VerboseHelp, SvcVerboseHelp, TerseHelp} : includes(toLowerCase(m), "create table")}

\* the step in which a call of the negotiating adapter ends on a missing-table error
TableFailure(c) ==
  /\ Negotiating(c)
  /\ calls[c].pc \in {"primary", "secondary"}
  /\ calls'[c].pc = "done"
  /\ TableMissing(calls'[c].reqs[Len(calls'[c].reqs)].resp)

\* C4: the first missing-table failure of saveScore or getLeaderboard, whichever
\* comes first, carries the verbose schema help with "create table"; every later
\* missing-table failure of either, in any order, carries the strictly shorter one-line
\* message.  (warnedAboutSchema is false at the start and true exactly from the first
\* such failure on.)
C4_VerboseOnceThenTerse ==
  [][ /\ warnedAboutSchema' = (warnedAboutSchema \/ \E c \in CallIds : TableFailure(c))
      /\ \A c \in CallIds :
           TableFailure(c) =>
             LET ret == calls'[c].ret
             IN  /\ ret.ok # "true" /\ ret.how \in {"return", "throw"}
                 /\ calls[c].op = "saveScore" => ret.how = "return" /\ ret.ok = "false"
                 /\ ~warnedAboutSchema =>
                      (ret.message = VerboseHelp /\ ret.message \in WithCreateTable)
                 /\ warnedAboutSchema =>
                      /\ ret.message = TerseHelp
                      /\ ret.message \notin WithCreateTable
                      /\ Len(ret.message) < Len(VerboseHelp) ]_vars

\* the table is absent, the help was shown before, and this call got the short one
C4_Witness ==
  \E c \in CallIds :
    /\ Done(c) /\ calls[c].op = "getLeaderboard" /\ schema = "absent" /\ honest
    /\ warnedAboutSchema /\ calls[c].ret.message = TerseHelp

\* C5: in disabled mode (client is null) no operation sends a request, scoreColumn
\* and warnedAboutSchema stay as they are, and the adapter stays disabled.
C5_DisabledStaysInert ==
  [][ client = "null" =>
        /\ client' = "null"
        /\ scoreColumn' = scoreColumn
        /\ warnedAboutSchema' = warnedAboutSchema
        /\ \A c \in CallIds : Len(calls'[c].reqs) = 0 ]_vars

C5_Witness ==
  \E c \in CallIds :
    /\ client = "null" /\ Done(c) /\ calls[c].op = "saveScore" /\ NReq(c) = 0
    /\ scoreColumn = "null" /\ ~warnedAboutSchema

\* C6 as stated: in disabled mode saveScore returns {ok: false, message} and the
\* leaderboard fetch returns {ok: false, message, data: []}, each with a non-empty
\* message.
C6_UnavailableFailures ==
  \A c \in CallIds :
    (client = "null" /\ Done(c)) =>
      /\ calls[c].ret.how = "return" /\ calls[c].ret.ok = "false"
      /\ calls[c].ret.message # ""
      /\ calls[c].op \in {"getLeaderboard", "getTopScores"} => calls[c].ret.data = "empty"

\* C6 amended: in disabled mode saveScore (of either service) returns {ok: false,
\* message} and getTopScores returns {ok: false, message, data: []}, each with a
\* non-empty message; getLeaderboard returns the bare empty list, without ok and
\* without a message.
C6_UnavailableResults ==
  \A c \in CallIds :
    (client = "null" /\ Done(c)) =>
      /\ calls[c].op \in {"saveScore", "svcSaveScore"} =>
           /\ calls[c].ret.how = "return" /\ calls[c].ret.ok = "false"
           /\ calls[c].ret.message # "" /\ calls[c].ret.data = "none"
      /\ calls[c].op = "getTopScores" =>
           /\ calls[c].ret.how = "return" /\ calls[c].ret.ok = "false"
           /\ calls[c].ret.message # "" /\ calls[c].ret.data = "empty"
      /\ calls[c].op = "getLeaderboard" =>
           /\ calls[c].ret.how = "return" /\ calls[c].ret.ok = "none"
           /\ calls[c].ret.message = "" /\ calls[c].ret.data = "empty"

C6_Witness ==
  \E c \in CallIds :
    /\ client = "null" /\ Done(c) /\ calls[c].op = "getTopScores"
    /\ calls[c].ret.message = SvcLeaderboardUnavailable

\* C7: saveScore's first request inserts the one row {username, score value} under
\* the remembered column, or under 'result' when none is remembered; when that insert
\* succeeds saveScore returns {ok: true}, scoreColumn is the name it used, and no
\* further request goes out.
C7_FirstInsert ==
  \A c \in CallIds :
    (calls[c].op = "saveScore" /\ NReq(c) >= 1) =>
      LET first == Req(c, 1)
          name  == IF calls[c].seen = "null" THEN "result" ELSE calls[c].seen
      IN  /\ first.kind = "insert"
          /\ first.col = name
          /\ DOMAIN first.row = {"username", name}
          /\ first.row.username = calls[c].username
          /\ first.row[name] = calls[c].score
          /\ (first.resp \in Responses /\ ~first.resp.failed) =>
               /\ Done(c) /\ NReq(c) = 1
               /\ calls[c].ret = Ok
               /\ scoreColumn = name

C7_Witness ==
  \E c \in CallIds :
    /\ Done(c) /\ calls[c].op = "saveScore" /\ calls[c].seen = "score" /\ NReq(c) = 1
    /\ Req(c, 1).row = [username |-> "bob", score |-> 1]
    /\ calls[c].ret = Ok /\ scoreColumn = "score"

\* C8: in saveScore the missing-table check comes first: when the first insert's
\* error is a missing-table error, saveScore returns the schema help as a Failure and
\* sends no retry, also when the same message is a missing-column error for the
\* column it tried.
C8_TableBeforeColumn ==
  \A c \in CallIds :
    (calls[c].op = "saveScore" /\ NReq(c) >= 1 /\ TableMissing(Req(c, 1).resp)) =>
      /\ Done(c) /\ NReq(c) = 1
      /\ calls[c].ret.how = "return" /\ calls[c].ret.ok = "false"
      /\ calls[c].ret.message \in {VerboseHelp, TerseHelp}

C8_Witness ==
  \E c \in CallIds :
    /\ Done(c) /\ calls[c].op = "saveScore" /\ NReq(c) = 1
    /\ TableMissing(Req(c, 1).resp)
    /\ ColumnMissing(Req(c, 1).resp, calls[c].preferred)
    /\ calls[c].ret.message = VerboseHelp

\* C9: the retry of saveScore goes out under the other column name; when it succeeds
\* saveScore returns {ok: true} and scoreColumn is that other name; when it fails on
\* a missing table saveScore returns the schema help; on any other error it returns
\* the generic Failure around the retry's message, not the first request's; in both
\* failures scoreColumn is as it was.
C9_RetryOutcome ==
  \A c \in CallIds :
    (calls[c].op = "saveScore" /\ NReq(c) = 2) =>
      /\ Req(c, 2).kind = "insert"
      /\ Req(c, 2).col \in Columns \ {Req(c, 1).col}
      /\ Req(c, 2).row.username = calls[c].username
      /\ Req(c, 2).row[Req(c, 2).col] = calls[c].score
      /\ Done(c) =>
           LET retry == Req(c, 2).resp
           IN  IF ~retry.failed
                 THEN calls[c].ret = Ok /\ scoreColumn = Req(c, 2).col
               ELSE IF TableMissing(retry)
                 THEN /\ calls[c].ret.ok = "false" /\ calls[c].ret.how = "return"
                      /\ calls[c].ret.message \in {VerboseHelp, TerseHelp}
                      /\ scoreColumn = calls[c].seen
               ELSE /\ calls[c].ret.ok = "false" /\ calls[c].ret.how = "return"
                    /\ calls[c].ret.message = "Failed to save score: " \o retry.message
                    /\ scoreColumn = calls[c].seen

\* a retry that failed on an error of neither class, with another text than the first
C9_Witness ==
  \E c \in CallIds :
    /\ Done(c) /\ calls[c].op = "saveScore" /\ NReq(c) = 2
    /\ OtherError(Req(c, 2).resp, Req(c, 2).col)
    /\ Req(c, 2).resp.message # Req(c, 1).resp.message
    /\ calls[c].ret.ok = "false"

\* the step in which call c takes the response to its first request
FirstAnswer(c) == calls[c].pc = "primary" /\ calls'[c].pc # "primary"

\* C10: when the first request of saveScore or of the leaderboard fetch fails on an
\* error that is neither missing-table nor missing-column, the operation sends no
\* retry, reports the generic failure around that error's message, and leaves
\* scoreColumn and warnedAboutSchema as they were.
C10_OtherErrorGeneric ==
  [][ \A c \in CallIds :
        (/\ FirstAnswer(c) /\ Negotiating(c)
         /\ OtherError(calls'[c].reqs[1].resp, calls[c].preferred)) =>
          LET ret == calls'[c].ret
              msg == calls'[c].reqs[1].resp.message
          IN  /\ calls'[c].pc = "done"
              /\ Len(calls'[c].reqs) = 1
              /\ calls[c].op = "saveScore" =>
                   ret = Failure("Failed to save score: " \o msg)
              /\ calls[c].op = "getLeaderboard" =>
                   ret = Thrown("Failed to load leaderboard: " \o msg)
              /\ scoreColumn' = scoreColumn
              /\ warnedAboutSchema' = warnedAboutSchema ]_vars

C10_Witness ==
  \E c \in CallIds :
    /\ Done(c) /\ calls[c].op = "getLeaderboard" /\ NReq(c) = 1
    /\ Req(c, 1).resp.message = "permission denied for relation scores"
    /\ calls[c].ret.message = "Failed to load leaderboard: permission denied for relation scores"
    /\ scoreColumn = "null"

\* C11: no operation is retried more than once: an invocation of saveScore or of
\* getLeaderboard issues at most two requests, and a second one only after the first
\* failed with a missing-column error for the column it was attempted under; the
\* second request is the same operation under the other candidate column.
C11_AtMostOneRetry ==
  \A c \in CallIds :
    Negotiating(c) =>
      /\ NReq(c) <= 2
      /\ NReq(c) = 2 =>
           /\ ColumnMissing(Req(c, 1).resp, Req(c, 1).col)
           /\ Req(c, 2).col \in Columns \ {Req(c, 1).col}
           /\ Req(c, 2).kind = Req(c, 1).kind

\* a saveScore whose retry failed as well has ended with its two requests
C11_Witness ==
  \E c \in CallIds :
    /\ Done(c) /\ calls[c].op = "saveScore" /\ NReq(c) = 2
    /\ Req(c, 2).resp.failed /\ calls[c].ret.ok = "false"

----------------------------------------------------------------------------
(* The leaderboard as the claims describe it, read off the rows themselves *)

NameOf(r) == IF r.username.t = "string" THEN r.username.s ELSE ""

\* the score of a row: its number under the column, 0 for anything else
ValueOf(r, column) == IF r[column].t = "number" THEN r[column].n ELSE 0

\* the instant of a row: that of its ISO text, the epoch for anything else
InstantOf(r) ==
  IF r.created_at.t = "string" /\ (\E n \in Seconds : IsoSeconds[n] = r.created_at.s)
    THEN CHOOSE n \in Seconds : IsoSeconds[n] = r.created_at.s
    ELSE 0

Players(rows) == {NameOf(rows[i]) : i \in 1..Len(rows)} \ {""}

RECURSIVE SumFor(_, _, _)
SumFor(rows, column, u) ==
  IF rows = <<>> THEN 0
  ELSE (IF NameOf(Head(rows)) = u THEN ValueOf(Head(rows), column) ELSE 0)
         + SumFor(Tail(rows), column, u)

RECURSIVE LatestFor(_, _)
LatestFor(rows, u) ==
  IF rows = <<>> THEN 0
  ELSE LET rest == LatestFor(Tail(rows), u)
           here == IF NameOf(Head(rows)) = u THEN InstantOf(Head(rows)) ELSE 0
       IN  IF here > rest THEN here ELSE rest

\* v stands above u: a higher total, or the same total and a more recent play
Above(rows, column, v, u) ==
  \/ SumFor(rows, column, v) > SumFor(rows, column, u)
  \/ /\ SumFor(rows, column, v) = SumFor(rows, column, u)
     /\ LatestFor(rows, v) > LatestFor(rows, u)

NumAbove(rows, column, u) ==
  Cardinality({v \in Players(rows) : Above(rows, column, v, u)})

EntriesOf(board, u) == {i \in 1..Len(board) : board[i].username = u}

Fetched(c) == Done(c) /\ calls[c].op = "getLeaderboard" /\ calls[c].ret = Rows("rows")

\* the table holds the row of a finished, successful saveScore as its newest row
Saved(c) ==
  /\ calls[c].ret = Ok
  /\ table # <<>>
  /\ table[Len(table)] =
       ScoreSelectRow(JsString(calls[c].username), schema, JsNumber(calls[c].score),
                      JsString(Iso(Len(table))))

Aggregated == agg.pc = "done"

OutNames == {agg.out[i].username : i \in 1..Len(agg.out)}

\* C13: the total of every entry is the sum of the scores, read under the column the
\* rows were fetched with and counted as 0 when missing or not a finite number, of
\* exactly the fetched rows that carry the entry's username.
C13_TotalIsSumOfPlayersRows ==
  Aggregated =>
    \A i \in 1..Len(agg.out) :
      agg.out[i].total = SumFor(agg.rows, agg.column, agg.out[i].username)

\* an entry summed over a win and a row whose score is no finite number
C13_Witness ==
  /\ Aggregated
  /\ Len(agg.rows) = 2
  /\ \A i \in 1..2 : NameOf(agg.rows[i]) = "ann"
  /\ agg.rows[1][agg.column] = JsNumber(2)
  /\ agg.rows[2][agg.column] = JsString("n/a")
  /\ Len(agg.out) = 1 /\ agg.out[1].total = 2

ARow(u, v, t) == ScoreSelectRow(JsString(u), agg.column, JsNumber(v), JsString(Iso(t)))

\* C14: the entries are ordered by total, highest first, and entries of equal total
\* by their last_played, most recent first; the rows {ann: 2 at t1} and {bob: 2 at t2}
\* with t2 > t1 give the order [bob, ann].
C14_OrderedByTotalThenRecency ==
  Aggregated =>
    /\ \A i \in 1..(Len(agg.out) - 1) :
         \/ agg.out[i].total > agg.out[i + 1].total
         \/ /\ agg.out[i].total = agg.out[i + 1].total
            /\ agg.out[i].last_played >= agg.out[i + 1].last_played
    /\ agg.rows = <<ARow("ann", 2, 1), ARow("bob", 2, 2)>> =>
         /\ Len(agg.out) = 2
         /\ agg.out[1].username = "bob" /\ agg.out[2].username = "ann"

C14_Witness ==
  /\ Aggregated
  /\ agg.rows = <<ARow("ann", 2, 1), ARow("bob", 2, 2)>>
  /\ agg.out[1].username = "bob"

MinOf(a, b) == IF a < b THEN a ELSE b

\* C15 as stated: the result is cut to the limit the caller asks for: for every limit
\* n, it has exactly min(n, number of distinct non-empty usernames) entries.
C15_CutToCallersLimit ==
  Aggregated =>
    \A n \in Limits :
      Len(agg.out) = MinOf(n, Cardinality(Players(agg.rows)))

\* C15 amended: getLeaderboard takes no limit; the result has exactly
\* min(10, number of distinct non-empty usernames) entries, and no player left out
\* stands above a player in the result.
C15_CutToTen ==
  Aggregated =>
    /\ Len(agg.out) = MinOf(LeaderboardSize, Cardinality(Players(agg.rows)))
    /\ OutNames \subseteq Players(agg.rows)
    /\ \A u \in Players(agg.rows) \ OutNames, v \in OutNames :
         ~Above(agg.rows, agg.column, u, v)

\* twelve players, ten entries
C15_Witness ==
  /\ Aggregated
  /\ Cardinality(Players(agg.rows)) = LeaderboardSize + 2
  /\ Len(agg.out) = LeaderboardSize

\* C16: the last_played of every entry is the latest parsed created_at of the
\* player's fetched rows, where a created_at that is no parseable text counts as the
\* epoch and so never passes a parseable timestamp of the same player.
C16_LastPlayedIsLatest ==
  Aggregated =>
    \A i \in 1..Len(agg.out) :
      agg.out[i].last_played = LatestFor(agg.rows, agg.out[i].username)

\* a player with a row whose created_at does not parse, after a row whose does
C16_Witness ==
  /\ Aggregated
  /\ Len(agg.rows) = 2
  /\ NameOf(agg.rows[1]) = "bob" /\ agg.rows[1].created_at = JsString(Iso(1))
  /\ NameOf(agg.rows[2]) = "bob" /\ agg.rows[2].created_at = JsString("yesterday")
  /\ agg.out[1].last_played = 1

Named(r) == NameOf(r) # ""

\* C17: rows whose username is empty or no string are left out entirely: no entry
\* has the empty username, and the result is the one of the rows without them: the
\* same entries, totals, last_played and order.
C17_UnnamedRowsLeftOut ==
  Aggregated =>
    /\ \A i \in 1..Len(agg.out) : agg.out[i].username # ""
    /\ OutNames \subseteq Players(agg.rows)
    /\ agg.out = aggregateLeaderboard(SelectSeq(agg.rows, Named), agg.column)

\* a row with the empty username and one with a null username after the rows of
\* ten players
C17_Witness ==
  /\ Aggregated
  /\ \E i \in 1..Len(agg.rows) : agg.rows[i].username = JsString("")
  /\ \E i \in 1..Len(agg.rows) : agg.rows[i].username = JsNull
  /\ Len(agg.out) = LeaderboardSize

Swap(rows, i, j) == [rows EXCEPT ![i] = rows[j], ![j] = rows[i]]

\* two players with the same total and the same latest play
FullTie(rows, column) ==
  \E u, v \in Players(rows) :
    /\ u # v
    /\ SumFor(rows, column, u) = SumFor(rows, column, v)
    /\ LatestFor(rows, u) = LatestFor(rows, v)

\* C18 as stated: the result depends only on the set of rows, not on their order:
\* any two orderings of the same rows give the same ordered sequence, also for
\* players with equal totals and equal most-recent timestamps.  (Every reordering
\* is a chain of exchanges of two neighbouring rows; the exchange is what is checked,
\* on every row list.)
C18_OrderOfRowsIrrelevant ==
  Aggregated =>
    \A i \in 1..(Len(agg.rows) - 1) :
      aggregateLeaderboard(Swap(agg.rows, i, i + 1), agg.column) = agg.out

\* C18 amended: any two orderings of the same rows give the same ordered sequence
\* when no two players have both the same total and the same most-recent timestamp.
C18_OrderOfRowsIrrelevantWithoutTies ==
  (Aggregated /\ ~FullTie(agg.rows, agg.column)) =>
    \A i \in 1..(Len(agg.rows) - 1) :
      aggregateLeaderboard(Swap(agg.rows, i, i + 1), agg.column) = agg.out

\* two players of equal total, told apart by their latest play, the less recent first
C18_Witness ==
  /\ Aggregated
  /\ ~FullTie(agg.rows, agg.column)
  /\ agg.rows = <<ARow("bob", 2, 1), ARow("ann", 2, 2)>>
  /\ agg.out[1].username = "ann" /\ agg.out[2].username = "bob"

\* C20: no two entries carry the same username.
C20_OneEntryPerUsername ==
  Aggregated =>
    \A i, j \in 1..Len(agg.out) :
      agg.out[i].username = agg.out[j].username => i = j

\* a player with two rows, one entry
C20_Witness ==
  /\ Aggregated
  /\ Len(agg.rows) = 2
  /\ \A i \in 1..2 : NameOf(agg.rows[i]) = "bob"
  /\ Len(agg.out) = 1 /\ agg.out[1].username = "bob"

----------------------------------------------------------------------------
(* The schema help of the non-negotiating service *)

\* the step in which a call of the non-negotiating service ends on a missing-table
\* error
SvcTableFailure(c) ==
  /\ calls[c].op \in {"svcSaveScore", "getTopScores"}
  /\ calls[c].pc = "primary"
  /\ calls'[c].pc = "done"
  /\ TableMissing(calls'[c].reqs[1].resp)

\* C21 as stated: in the non-negotiating service, once getTopScores has returned the
\* verbose schema help, every later missing-table failure of getTopScores or of
\* saveScore returns the shorter one-line message.  (The service remembers the help
\* in warnedAboutSchema: a missing-table failure finds it false exactly when no help
\* was given before, answers with the verbose help then and with the one-line
\* message otherwise, and leaves it true.)
C21_TopScoresHelpOnce ==
  [][ \A c \in CallIds :
        SvcTableFailure(c) =>
          /\ calls'[c].ret.ok = "false"
          /\ ~svcWarnedAboutSchema => calls'[c].ret.message = SvcVerboseHelp
          /\ svcWarnedAboutSchema =>
               /\ calls'[c].ret.message = TerseHelp
               /\ Len(TerseHelp) < Len(SvcVerboseHelp)
          /\ svcWarnedAboutSchema' ]_vars


----------------------------------------------------------------------------
(* The negotiating adapter under overlapping invocations *)

\* the first request of the call has its response
FirstAnswered(c) == calls[c].pc \in {"secondary", "done"} /\ NReq(c) >= 1

\* what the call did with the response to its first request
Branch(c) ==
  IF NReq(c) = 2 THEN "retry"
  ELSE IF ~Req(c, 1).resp.failed THEN "success"
  ELSE IF calls[c].ret.message \in {VerboseHelp, TerseHelp} THEN "schema-help"
  ELSE "generic"

\* C23 as stated: saveScore and getLeaderboard classify the error of their first
\* request identically: for every backend error message, attempted under the same
\* column, both take the same branch (schema help, retry under the other column, or
\* generic failure), also when the message satisfies both the missing-table and the
\* missing-column predicate.
C23_SameBranch ==
  \A c, d \in CallIds :
    (/\ calls[c].op = "saveScore" /\ calls[d].op = "getLeaderboard"
     /\ FirstAnswered(c) /\ FirstAnswered(d)
     /\ Req(c, 1).col = Req(d, 1).col
     /\ Req(c, 1).resp = Req(d, 1).resp) =>
      Branch(c) = Branch(d)


\* the step in which call c of the negotiating adapter takes a response
Answer(c) == Negotiating(c) /\ Waiting(c) /\ calls'[c] # calls[c]

\* C24: scoreColumn is written only on success: a step in which saveScore or
\* getLeaderboard takes a failed response (ending in the schema help, in the generic
\* failure, in a failed retry, or going on to the retry) leaves scoreColumn exactly as
\* it was; a step that takes a successful response ends the invocation and sets
\* scoreColumn to the column of that request; no other step changes scoreColumn.
C24_ColumnWrittenOnSuccessOnly ==
  [][ /\ \A c \in CallIds :
           Answer(c) =>
             LET req == calls'[c].reqs[Len(calls[c].reqs)]
             IN  IF req.resp.failed
                   THEN scoreColumn' = scoreColumn
                   ELSE scoreColumn' = req.col /\ calls'[c].pc = "done"
      /\ (\A c \in CallIds : ~Answer(c)) => scoreColumn' = scoreColumn ]_vars

\* a saveScore that started with 'score' remembered failed in both requests, and
\* 'score' is still remembered
C24_Witness ==
  \E c \in CallIds :
    /\ Done(c) /\ calls[c].op = "saveScore" /\ NReq(c) = 2
    /\ Req(c, 2).resp.failed /\ calls[c].ret.ok = "false"
    /\ calls[c].seen = "score" /\ scoreColumn = "score"


\* the step in which call c ends with a successful request under `column`
SucceedsUnder(c, column) ==
  /\ Answer(c)
  /\ calls'[c].pc = "done"
  /\ calls'[c].reqs[Len(calls[c].reqs)].col = column
  /\ ~calls'[c].reqs[Len(calls[c].reqs)].resp.failed

\* the call's first request went out under `column` and failed on that column missing
FirstFailedUnder(c, column) ==
  /\ Len(calls'[c].reqs) = 2
  /\ calls'[c].reqs[1].col = column
  /\ ColumnMissing(calls'[c].reqs[1].resp, column)

\* C25 as stated: once scoreColumn is non-null it never returns to null, and it
\* changes from one confirmed name to the other only within an invocation whose first
\* request under the confirmed name failed with a missing-column error and whose
\* retry under the other name succeeded.
C25_ChangeOnlyByRetry ==
  [][ scoreColumn # "null" =>
        /\ scoreColumn' # "null"
        /\ scoreColumn' # scoreColumn =>
             \E c \in CallIds :
               SucceedsUnder(c, scoreColumn') /\ FirstFailedUnder(c, scoreColumn) ]_vars

\* C25 amended: once scoreColumn is non-null it never returns to null; it changes
\* from one confirmed name to the other only in the step in which a request of some
\* invocation under the other name succeeds.  For an invocation that began with the
\* confirmed name remembered, that request is the retry after its first request,
\* under the confirmed name, failed with a missing-column error; an invocation that
\* began before another one confirmed the name changes it by any request that
\* succeeds, its first included.
C25_ChangeOnlyBySuccess ==
  [][ scoreColumn # "null" =>
        /\ scoreColumn' # "null"
        /\ scoreColumn' # scoreColumn =>
             \E c \in CallIds :
               /\ SucceedsUnder(c, scoreColumn')
               /\ calls[c].seen = scoreColumn => FirstFailedUnder(c, scoreColumn) ]_vars

\* a call that began with 'score' remembered moved the adapter to 'result' by its retry
C25_Witness ==
  \E c \in CallIds :
    /\ Done(c) /\ Negotiating(c) /\ calls[c].seen = "score" /\ NReq(c) = 2
    /\ Req(c, 1).col = "score" /\ ColumnMissing(Req(c, 1).resp, "score")
    /\ Req(c, 2).col = "result" /\ ~Req(c, 2).resp.failed
    /\ scoreColumn = "result"


\* C26: under any interleaving of overlapping saveScore / getLeaderboard invocations
\* against a store whose table has exactly one of the two column names and does not
\* change, scoreColumn is always either null or the column the table has.
C26_NullOrTheTablesColumn ==
  (honest /\ schema \in Columns) => scoreColumn \in {"null", schema}

\* two invocations that both began before the column was known have each found it
\* by their retry
C26_Witness ==
  \E c, d \in CallIds :
    /\ c # d /\ honest /\ schema = "score"
    /\ Done(c) /\ calls[c].op = "saveScore" /\ calls[c].seen = "null" /\ NReq(c) = 2
    /\ Done(d) /\ calls[d].op = "getLeaderboard" /\ calls[d].seen = "null" /\ NReq(d) = 2
    /\ calls[c].ret = Ok /\ calls[d].ret = Rows("rows")
    /\ scoreColumn = "score"

\* C27: over the adapter's lifetime and under any interleaving of saveScore and
\* getLeaderboard, the verbose schema help is produced at most once, in the step that
\* takes warnedAboutSchema from false to true, and warnedAboutSchema never goes from
\* true to false.
C27_VerboseAtMostOnce ==
  [][ /\ warnedAboutSchema => warnedAboutSchema'
      /\ \A c \in CallIds :
           (Answer(c) /\ calls'[c].ret.message = VerboseHelp) =>
             (~warnedAboutSchema /\ warnedAboutSchema')
      /\ Cardinality({c \in CallIds : calls'[c].ret.message = VerboseHelp}) <= 1 ]_vars

\* both invocations went to their retry and failed there on the missing table: one
\* got the verbose help, the other the one-line message
C27_Witness ==
  \E c, d \in CallIds :
    /\ Done(c) /\ calls[c].op = "saveScore" /\ NReq(c) = 2 /\ TableMissing(Req(c, 2).resp)
    /\ Done(d) /\ calls[d].op = "getLeaderboard" /\ NReq(d) = 2
    /\ TableMissing(Req(d, 2).resp)
    /\ calls[c].ret.message = TerseHelp /\ calls[d].ret.message = VerboseHelp
    /\ warnedAboutSchema


----------------------------------------------------------------------------
(* The game *)

AllLines ==
  {{0, 1, 2}, {3, 4, 5}, {6, 7, 8}, {0, 3, 6}, {1, 4, 7}, {2, 5, 8}, {0, 4, 8}, {2, 4, 6}}

LineOf(b, mark) == \E l \in AllLines : \A k \in l : b[k] = mark

Full(b) == \A k \in 0..8 : b[k] # "null"

\* the names the player types, and what is left of each without the blanks around it
NameTyped == [t \in {"", "  ", " ann "} |-> IF t = " ann " THEN "ann" ELSE ""]

\* the step in which a saveScore of call c is issued
SaveIssued(c) == calls[c].pc = "idle" /\ calls'[c].pc # "idle" /\ calls'[c].op = "saveScore"

\* the step in which the game ends
Ends == ~gameOver /\ gameOver'

\* C22: a finished game is saved with win = 1, draw = 0.5, loss = 0 (2, 1, 0 in half
\* points): the save issued by the move that ends the game carries 1 when the board
\* then has a line of X, 0 when it has a line of O, and 0.5 when it is full without a
\* line; a move that fills the board and completes a line counts as the win or the
\* loss, never as a draw.
C22_SavedScoreIsTheResult ==
  [][ \A c \in CallIds :
        SaveIssued(c) =>
          LET b     == gameBoard'
              first == calls'[c].reqs[1]
              value == IF LineOf(b, "X") THEN 2 ELSE IF LineOf(b, "O") THEN 0 ELSE 1
          IN  /\ ~(LineOf(b, "X") /\ LineOf(b, "O"))
              /\ LineOf(b, "X") \/ LineOf(b, "O") \/ Full(b)
              /\ calls'[c].score = value
              /\ first.kind = "insert" /\ first.row[first.col] = value ]_vars

\* the ninth mark completed a line of X: saved as a win
C22_Witness ==
  \E c \in CallIds :
    /\ calls[c].pc # "idle" /\ calls[c].op = "saveScore" /\ calls[c].score = 2
    /\ gameOver /\ Full(gameBoard) /\ LineOf(gameBoard, "X")

\* C28 as stated: with the AI enabled the AI only moves for O: under any interleaving
\* of clicks, reset and the delayed aiMove callbacks, every mark placed by an aiMove
\* callback is 'O', and at most one mark is placed by aiMove per move of the human (an
\* aiMove callback is set by a move and sets none itself).
C28_AiPlaysOnlyO ==
  [][ \A i \in 1..MaxTimers :
        (aiEnabled /\ aiMove(i)) =>
          /\ \A k \in 0..8 : gameBoard'[k] # gameBoard[k] => gameBoard'[k] = "O"
          /\ Cardinality({k \in 0..8 : gameBoard'[k] # gameBoard[k]}) <= 1
          /\ timers' = Without(timers, i) ]_vars

\* C29: once gameOver is true, no makeMove and no pending aiMove changes the board
\* or the current player, and no further saveScore is issued until reset; a
\* saveScore is issued only by the step that ends a game, and one at most, so each
\* game between two resets yields at most one; an occupied cell is never overwritten
\* by a move (only reset empties cells).
C29_NothingAfterGameOver ==
  [][ /\ (gameOver /\ gameOver') =>
           /\ gameBoard' = gameBoard
           /\ currentPlayer' = currentPlayer
           /\ \A c \in CallIds : ~SaveIssued(c)
      /\ (\E c \in CallIds : SaveIssued(c)) => Ends
      /\ Cardinality({c \in CallIds : SaveIssued(c)}) <= 1
      /\ \A k \in 0..8 :
           gameBoard[k] # "null" =>
             (gameBoard'[k] = gameBoard[k] \/ \A j \in 0..8 : gameBoard'[j] = "null") ]_vars

\* the game is over, its save is under way and an aiMove callback is still due
C29_Witness ==
  /\ gameOver
  /\ \E i \in 1..Len(timers) : timers[i].callback = "aiMove"
  /\ \E c \in CallIds : calls[c].pc # "idle" /\ calls[c].op = "saveScore"

\* C30: the game calls saveScore only with a non-empty trimmed username and only when
\* Supabase is configured.  When the game ends with HAS_SUPABASE false, no saveScore is
\* issued and no toast is shown; with HAS_SUPABASE true and a username that is empty
\* after trimming, no saveScore is issued, usernameRequiredToSave is set and an info
\* toast is shown; otherwise one saveScore goes out under the trimmed name.  The game
\* ends (gameOver is true) in every case in which the board has a line or is full.
C30_SaveNeedsNameAndConfig ==
  [][ /\ \A c \in CallIds :
           SaveIssued(c) =>
             /\ Ends /\ client = "client"
             /\ calls'[c].username = NameTyped[gameUsername]
             /\ calls'[c].username # ""
      /\ Ends =>
           IF client # "client"
             THEN /\ \A c \in CallIds : ~SaveIssued(c)
                  /\ toast' = toast
                  /\ usernameRequiredToSave' = usernameRequiredToSave
           ELSE IF NameTyped[gameUsername] = ""
             THEN /\ \A c \in CallIds : ~SaveIssued(c)
                  /\ usernameRequiredToSave'
                  /\ toast' = [kind |-> "info", text |-> "Add a username to save your score."]
           ELSE \E c \in CallIds : SaveIssued(c)
      /\ (LineOf(gameBoard', "X") \/ LineOf(gameBoard', "O") \/ Full(gameBoard')) => gameOver'
    ]_vars

\* the game ended with blanks for a name: nothing is saved, the name is asked for
C30_Witness ==
  /\ gameOver /\ client = "client" /\ gameUsername = "  "
  /\ usernameRequiredToSave /\ toast.kind = "info"
  /\ \A c \in CallIds : calls[c].pc = "idle"

\* C31: a toast is hidden automatically only by its own timer.  The toast on screen
\* was set by the latest show, whose callback is the last one in the queue; so a
\* step that takes a toast off the screen is a later show (a callback is added), a
\* clear (the queue is untouched), or the run of the one callback left in the
\* queue, the toast's own.  A callback set by an earlier show, run while a later
\* one is still pending, leaves the toast alone.
C31_HiddenByOwnTimerOnly ==
  [][ (toast # NoToast /\ timers' = Tail(timers) /\ Len(timers) > 1) => toast' = toast ]_vars

====
